---- MODULE Spec2Model ----
(***************************************************************************)
(* Model of the clipboard monitor (extension/rust/clipboard-monitor):      *)
(* the orchestrator (main) thread with its polling loop, the stdin         *)
(* listener thread, the shared IS_MONITORING_ACTIVE flag, the stdout       *)
(* protocol stream, and the environment (OS clipboard, parent process).    *)
(***************************************************************************)
EXTENDS Integers, Sequences, FiniteSets, TLC

\* ------------------------------------------------------------------ bounds
\* Number of times the environment replaces the clipboard content.
MaxChanges == 2
\* Number of lines the parent writes to the control stream.
MaxLines == 2
\* Saturation value of the history counters (readsSincePause, ...).
HistCap == 2

\* ------------------------------------------------------------ Option<T>
None == <<>>
Some(x) == <<x>>

\* ------------------------------------------------------- clipboard text
\* A text is a sequence of lexical pieces; k classifies the piece for the
\* trigger regex, s is the literal text of the piece.
Txt(s) == [k |-> "text", tag |-> "", s |-> s]
OpenTag(t, s) == [k |-> "open", tag |-> t, s |-> s]
CloseTag(t, s) == [k |-> "close", tag |-> t, s |-> s]
SelfTag(t, s) == [k |-> "self", tag |-> t, s |-> s]

TestData == << Txt("Test Data") >>
SearchHello ==
    << OpenTag("search", "<qdrant-search>"), Txt("hello"),
       CloseTag("search", "</qdrant-search>") >>
FileAndRead ==
    << SelfTag("file", "<qdrant-file path=\"a.ts\"/>"), Txt("\n"),
       OpenTag("read", "<qdrant-read>"), Txt("x"),
       CloseTag("read", "</qdrant-read>") >>

\* The texts the clipboard takes in the runs explored.
Contents == { TestData, FileAndRead }

\* Further texts for the detection function taken alone: the empty text, a
\* text differing from TestData in case only, and markup the regex matches
\* partly or not at all.
EmptyText == << >>
LowerData == << Txt("test data") >>
UnclosedFile == << OpenTag("file", "<qdrant-file>"), Txt("abc") >>
SelfThenClose ==
    << SelfTag("file", "<qdrant-file/>"), Txt("x"),
       CloseTag("file", "</qdrant-file>") >>
OpenThenSelf ==
    << OpenTag("read", "<qdrant-read>"), Txt("y"),
       SelfTag("search", "<qdrant-search/>") >>
TwoPaired ==
    << OpenTag("search", "<qdrant-search>"), Txt("q"),
       CloseTag("search", "</qdrant-search>"), Txt(" and "),
       OpenTag("file", "<qdrant-file path=\"b\">"), Txt("f"),
       CloseTag("file", "</qdrant-file>") >>
Mismatched ==
    << OpenTag("file", "<qdrant-file>"), Txt("a"),
       CloseTag("read", "</qdrant-read>") >>
Texts ==
    { TestData, SearchHello, FileAndRead, EmptyText, LowerData, UnclosedFile,
      SelfThenClose, OpenThenSelf, TwoPaired, Mismatched }

RECURSIVE Join(_)
\* The string a sequence of pieces spells.
Join(ps) == IF ps = <<>> THEN "" ELSE Head(ps).s \o Join(Tail(ps))

\* md5::compute + format!("{:x}"): the 32-digit lowercase hex digest.
md5hex(str) ==
    CASE str = "Test Data" -> "f315202b28422ed5c2af4f843b8c2764"
      [] str = "<qdrant-search>hello</qdrant-search>"
            -> "cd72757bc73022dfbb4ef4698bb26b21"
      [] str = "<qdrant-file path=\"a.ts\"/>\n<qdrant-read>x</qdrant-read>"
            -> "bbb19d07c880354638bbd42904714af4"
      [] str = "" -> "d41d8cd98f00b204e9800998ecf8427e"
      [] str = "test data" -> "eb733a00c0c9d336e65691a37ab54293"
      [] str = "<qdrant-file>abc" -> "112737b3f8c3f788d2839824e5dd0efa"
      [] str = "<qdrant-file/>x</qdrant-file>"
            -> "69198e80f321eb1a40a75af58c306c32"
      [] str = "<qdrant-read>y<qdrant-search/>"
            -> "4d1c17784b178f5e9a4f27b07f3a3adc"
      [] str = "<qdrant-search>q</qdrant-search> and <qdrant-file path=\"b\">f</qdrant-file>"
            -> "8ef30870e80052745e06b97c57545ea5"
      [] str = "<qdrant-file>a</qdrant-read>"
            -> "4a377e95f17328f1f00f6aaef047ab4f"

\* --------------------------------------------------------------- protocol
Ready == [type |-> "ready"]
ErrorMsg(m) == [type |-> "error", message |-> m]
ClipboardUpdate(c) ==
    [type |-> "clipboard_update", content |-> Join(c), length |-> Len(Join(c))]
TriggerXml(ps) == [type |-> "trigger_xml", xml_payloads |-> ps]

PauseLine == "{\"command\":\"pause\"}"
ResumeLine == "{\"command\":\"resume\"}"
\* Lines the parent may write: the two commands, a command with the wrong
\* case (no variant of the enum), and the empty line (no JSON).
Lines == { PauseLine, ResumeLine, "{\"command\":\"Pause\"}", "" }

\* serde_json::from_str::<InputCommand>: tag "command", snake_case variants.
Decode(line) ==
    IF line = PauseLine THEN "Pause"
    ELSE IF line = ResumeLine THEN "Resume"
    ELSE "Err"

\* ---------------------------------------------------------- trigger regex
\* XML_COMMAND_REGEX on pieces. Alternative 1: an opening <qdrant-T ...>
\* (the lazy .*?> stops at the end of the piece, self-closing or not), then
\* lazily up to the first </qdrant-T> of the same tag.
\* The least position of a set of positions, 0 when there is none.
First(S) == IF S = {} THEN 0 ELSE CHOOSE j \in S : \A k \in S : j <= k

StartsTag(p) == p.k \in {"open", "self"}

PairedEnd(ps, i) ==
    First({ j \in (i + 1)..Len(ps) :
              ps[j].k = "close" /\ ps[j].tag = ps[i].tag })

\* Alternative 2: <qdrant-T, then lazily up to the first "/>".
SelfEnd(ps, i) == First({ j \in i..Len(ps) : ps[j].k = "self" })

\* End of the match starting at piece i, 0 when none starts there.
MatchEnd(ps, i) ==
    IF ~StartsTag(ps[i]) THEN 0
    ELSE IF PairedEnd(ps, i) # 0 THEN PairedEnd(ps, i)
    ELSE SelfEnd(ps, i)

\* Faulty variant of FindIter that stops after the first match (find instead
\* of find_iter; C12 fails on it).
FindIter_FirstOnly(ps, i) ==
    LET S == { k \in i..Len(ps) : MatchEnd(ps, k) # 0 }
    IN IF S = {} THEN <<>>
       ELSE << Join(SubSeq(ps, First(S), MatchEnd(ps, First(S)))) >>

RECURSIVE FindIter(_, _)
\* re.find_iter(content): the non-overlapping matches, leftmost first.
FindIter(ps, i) ==
    IF i > Len(ps) THEN <<>>
    ELSE IF MatchEnd(ps, i) = 0 THEN FindIter(ps, i + 1)
    ELSE << Join(SubSeq(ps, i, MatchEnd(ps, i))) >>
            \o FindIter(ps, MatchEnd(ps, i) + 1)

\* Faulty variant of check_for_triggers without the is_empty test (C16 fails
\* on it).
check_for_triggers_AlwaysSome(content) ==
    Some(TriggerXml(FindIter(content, 1)))

\* fn check_for_triggers(content: &str) -> Option<OutputMessage>
check_for_triggers(content) ==
    LET xml_payloads == FindIter(content, 1)
    IN IF xml_payloads # <<>> THEN Some(TriggerXml(xml_payloads)) ELSE None

\* Faulty variant of process_clipboard_content that never compares with the
\* last hash (C2 fails on it).
process_clipboard_content_NoCompare(content, last) ==
    [update |-> Some(ClipboardUpdate(content)),
     trigger |-> check_for_triggers(content),
     hash |-> md5hex(Join(content))]

\* Faulty variant of process_clipboard_content that compares the last hash
\* with the text instead of its digest (C13 fails on it).
process_clipboard_content_ComparesText(content, last) ==
    IF last = Some(Join(content))
    THEN [update |-> None, trigger |-> None, hash |-> md5hex(Join(content))]
    ELSE [update |-> Some(ClipboardUpdate(content)),
          trigger |-> check_for_triggers(content),
          hash |-> md5hex(Join(content))]

\* Faulty variant of process_clipboard_content that never reports a change
\* (C20 fails on it).
process_clipboard_content_NoUpdate(content, last) ==
    [update |-> None, trigger |-> None, hash |-> md5hex(Join(content))]

\* (update_msg, trigger_msg, current_hash)
process_clipboard_content(content, last) ==
    LET current_hash == md5hex(Join(content))
    IN IF last = Some(current_hash)
       THEN [update |-> None, trigger |-> None, hash |-> current_hash]
       ELSE [update |-> Some(ClipboardUpdate(content)),
             trigger |-> check_for_triggers(content),
             hash |-> current_hash]

\* ------------------------------------------------------------------ state
VARIABLES
    mainPc,        \* position of the orchestrator thread in main
    exitStatus,    \* "running", "exit0" (main returned Ok) or "exit1" (Err)
    listenerPc,    \* "unspawned", "lines", "decode" or "done"
    stdinState,    \* "open", "eof" or "error": how the control stream ended
    json_line,     \* the line the listener holds
    active,        \* IS_MONITORING_ACTIVE
    stdoutOpen,    \* the parent still reads our stdout
    clipboard,     \* the OS clipboard text
    last_hash,     \* main's last_hash: Option<String>
    update_msg,    \* this cycle's update_msg
    trigger_msg,   \* this cycle's trigger_msg
    new_hash,      \* this cycle's new_hash
    sendLog,       \* history: every send_json call, <<message, succeeded>>
    stderr,        \* the diagnostic side channel
    processed,     \* history: what each handled line decoded to
    changes,       \* history: number of clipboard changes so far
    hist           \* history record used by the properties

vars ==
    << mainPc, exitStatus, listenerPc, stdinState, json_line, active,
       stdoutOpen, clipboard, last_hash, update_msg, trigger_msg, new_hash,
       sendLog, stderr, processed, changes, hist >>

mainVars ==
    << mainPc, exitStatus, last_hash, update_msg, trigger_msg, new_hash,
       sendLog >>
listenerVars == << listenerPc, stdinState, json_line, processed >>
envVars == << clipboard, stdoutOpen, changes >>

\* The lines written to stdout: the messages of the successful sends.
RECURSIVE Written(_)
Written(log) ==
    IF log = <<>> THEN <<>>
    ELSE (IF Head(log).ok THEN << Head(log).msg >> ELSE <<>>)
            \o Written(Tail(log))
out == Written(sendLog)

Alive == exitStatus = "running"

\* Saturating increment of a history counter.
Inc(n) == IF n < HistCap THEN n + 1 ELSE n

\* send_json(msg): one line on stdout, or Err when the pipe is closed.
SendJson(msg) == sendLog' = Append(sendLog, [msg |-> msg, ok |-> stdoutOpen])

Init ==
    /\ mainPc = "init"
    /\ exitStatus = "running"
    /\ listenerPc = "unspawned"
    /\ stdinState = "open"
    /\ json_line = ""
    /\ active = TRUE
    /\ stdoutOpen = TRUE
    /\ clipboard \in Contents
    /\ last_hash = None
    /\ update_msg = None
    /\ trigger_msg = None
    /\ new_hash = ""
    /\ sendLog = <<>>
    /\ stderr = <<>>
    /\ processed = <<>>
    /\ changes = 0
    /\ hist = [ initFailed |-> FALSE,      \* Clipboard::new() returned Err
                everRead |-> FALSE,        \* get_text has been called
                readOk |-> FALSE,          \* get_text has returned Ok
                cycleReadFailed |-> FALSE, \* this cycle's get_text returned Err
                window |-> FALSE,          \* a Pause has turned monitoring off
                cycleAfterPause |-> FALSE, \* this cycle's flag check came after it
                cycleEmitted |-> FALSE,    \* this cycle has sent since the Pause
                readsSincePause |-> 0,     \* get_text calls during this pause
                emitCyclesSincePause |-> 0,\* cycles that sent during this pause
                updatesSincePause |-> 0,   \* updates sent during this pause
                winChanges |-> 0,          \* clipboard changes while paused
                clipSetInPause |-> FALSE,  \* clipboard was set while paused
                cycleSetInPause |-> FALSE, \* ... and this cycle read that text
                winUpdates |-> 0,          \* updates carrying such text
                winUpdatesAfter |-> 0,     \* ... sent by cycles checked after it
                readAfterInputEnd |-> FALSE ] \* get_text after the listener ended

\* ------------------------------------------------------- orchestrator (main)
\* let mut clipboard = match Clipboard::new()
ClipboardNew ==
    /\ Alive /\ mainPc = "init"
    /\ \E ok \in BOOLEAN :
          IF ok
          THEN /\ mainPc' = "spawn"
               /\ hist' = hist
          ELSE /\ mainPc' = "send_error"
               /\ hist' = [hist EXCEPT !.initFailed = TRUE]
    /\ UNCHANGED << exitStatus, last_hash, update_msg, trigger_msg, new_hash,
                    sendLog, active, stderr, listenerVars, envVars >>

\* Faulty variant of SendError without the return: main goes on to start the
\* listener (C7 fails on it).
SendError_NoReturn ==
    /\ Alive /\ mainPc = "send_error"
    /\ SendJson(ErrorMsg("Failed to init Clipboard"))
    /\ mainPc' = "spawn"
    /\ UNCHANGED << exitStatus, last_hash, update_msg, trigger_msg, new_hash,
                    active, stderr, listenerVars, envVars, hist >>

\* let _ = send_json(&Error{..}); return Err(..)
SendError ==
    /\ Alive /\ mainPc = "send_error"
    /\ SendJson(ErrorMsg("Failed to init Clipboard"))
    /\ mainPc' = "exited"
    /\ exitStatus' = "exit1"
    /\ UNCHANGED << last_hash, update_msg, trigger_msg, new_hash, active,
                    stderr, listenerVars, envVars, hist >>

\* Faulty variant of SpawnListener that enters the loop without the Ready
\* signal (C1 fails on it).
SpawnListener_SkipsReady ==
    /\ Alive /\ mainPc = "spawn"
    /\ listenerPc' = "lines"
    /\ mainPc' = "check"
    /\ UNCHANGED << exitStatus, last_hash, update_msg, trigger_msg, new_hash,
                    sendLog, active, stderr, stdinState, json_line, processed,
                    envVars, hist >>

\* thread::spawn(input_listener)
SpawnListener ==
    /\ Alive /\ mainPc = "spawn"
    /\ listenerPc' = "lines"
    /\ mainPc' = "send_ready"
    /\ UNCHANGED << exitStatus, last_hash, update_msg, trigger_msg, new_hash,
                    sendLog, active, stderr, stdinState, json_line, processed,
                    envVars, hist >>

\* send_json(&OutputMessage::Ready)?; let mut last_hash = None;
SendReady ==
    /\ Alive /\ mainPc = "send_ready"
    /\ SendJson(Ready)
    /\ IF stdoutOpen
       THEN mainPc' = "check" /\ exitStatus' = exitStatus
       ELSE mainPc' = "exited" /\ exitStatus' = "exit1"
    /\ last_hash' = None
    /\ UNCHANGED << update_msg, trigger_msg, new_hash, active, stderr,
                    listenerVars, envVars, hist >>

\* Faulty variant of CheckActive that does not look at the flag (C3 fails
\* on it).
CheckActive_IgnoresFlag ==
    /\ Alive /\ mainPc = "check"
    /\ mainPc' = "get_text"
    /\ hist' = [hist EXCEPT !.cycleEmitted = FALSE,
                            !.cycleAfterPause = hist.window,
                            !.cycleSetInPause = FALSE,
                            !.cycleReadFailed = FALSE]
    /\ UNCHANGED << exitStatus, last_hash, update_msg, trigger_msg, new_hash,
                    sendLog, active, stderr, listenerVars, envVars >>

\* Top of the loop: thread::sleep(Duration::from_millis(500));
\* if !*IS_MONITORING_ACTIVE.lock().unwrap()
CheckActive ==
    /\ Alive /\ mainPc = "check"
    /\ mainPc' = IF ~active THEN "paused_sleep" ELSE "get_text"
    /\ hist' = [hist EXCEPT !.cycleEmitted = FALSE,
                            !.cycleAfterPause = hist.window,
                            !.cycleSetInPause = FALSE,
                            !.cycleReadFailed = FALSE]
    /\ UNCHANGED << exitStatus, last_hash, update_msg, trigger_msg, new_hash,
                    sendLog, active, stderr, listenerVars, envVars >>

\* Faulty variant of PausedSleep without the continue: the cycle falls
\* through to the read (C4 fails on it).
PausedSleep_FallsThrough ==
    /\ Alive /\ mainPc = "paused_sleep"
    /\ mainPc' = "get_text"
    /\ UNCHANGED << exitStatus, last_hash, update_msg, trigger_msg, new_hash,
                    sendLog, active, stderr, listenerVars, envVars, hist >>

\* Faulty variant of PausedSleep that forgets the last hash while paused
\* (C5 fails on it).
PausedSleep_ForgetsHash ==
    /\ Alive /\ mainPc = "paused_sleep"
    /\ mainPc' = "check"
    /\ last_hash' = None
    /\ UNCHANGED << exitStatus, update_msg, trigger_msg, new_hash,
                    sendLog, active, stderr, listenerVars, envVars, hist >>

\* Faulty variant of PausedSleep that takes the end of the listener as the
\* parent's exit and stops the process (C19 fails on it).
PausedSleep_ExitsWhenListenerDone ==
    /\ Alive /\ mainPc = "paused_sleep"
    /\ IF listenerPc = "done"
       THEN mainPc' = "exited" /\ exitStatus' = "exit0"
       ELSE mainPc' = "check" /\ exitStatus' = exitStatus
    /\ UNCHANGED << last_hash, update_msg, trigger_msg, new_hash,
                    sendLog, active, stderr, listenerVars, envVars, hist >>

\* thread::sleep(Duration::from_secs(1)); continue;
PausedSleep ==
    /\ Alive /\ mainPc = "paused_sleep"
    /\ mainPc' = "check"
    /\ UNCHANGED << exitStatus, last_hash, update_msg, trigger_msg, new_hash,
                    sendLog, active, stderr, listenerVars, envVars, hist >>

\* Faulty variant of GetText that leaves the loop when the read fails (C11
\* fails on it).
GetText_BreaksOnReadError ==
    /\ Alive /\ mainPc = "get_text"
    /\ \E ok \in BOOLEAN :
          IF ok
          THEN LET r == process_clipboard_content(clipboard, last_hash)
               IN /\ update_msg' = r.update
                  /\ trigger_msg' = r.trigger
                  /\ new_hash' = r.hash
                  /\ mainPc' = "send_update"
                  /\ exitStatus' = exitStatus
                  /\ hist' = [hist EXCEPT
                        !.everRead = TRUE,
                        !.readOk = TRUE,
                        !.readsSincePause = IF active THEN @ ELSE Inc(@),
                        !.cycleSetInPause = hist.clipSetInPause,
                        !.readAfterInputEnd = @ \/ listenerPc = "done"]
          ELSE /\ mainPc' = "exited"
               /\ exitStatus' = "exit0"
               /\ hist' = [hist EXCEPT
                        !.everRead = TRUE,
                        !.cycleReadFailed = TRUE,
                        !.readsSincePause = IF active THEN @ ELSE Inc(@),
                        !.readAfterInputEnd = @ \/ listenerPc = "done"]
               /\ UNCHANGED << update_msg, trigger_msg, new_hash >>
    /\ UNCHANGED << last_hash, sendLog, active, stderr, listenerVars,
                    envVars >>

\* match clipboard.get_text() { Ok(content) => process_clipboard_content(..),
\*                              Err(_) => {} }
GetText ==
    /\ Alive /\ mainPc = "get_text"
    /\ \E ok \in BOOLEAN :
          IF ok
          THEN LET r == process_clipboard_content(clipboard, last_hash)
               IN /\ update_msg' = r.update
                  /\ trigger_msg' = r.trigger
                  /\ new_hash' = r.hash
                  /\ mainPc' = "send_update"
                  /\ hist' = [hist EXCEPT
                        !.everRead = TRUE,
                        !.readOk = TRUE,
                        !.readsSincePause = IF active THEN @ ELSE Inc(@),
                        !.cycleSetInPause = hist.clipSetInPause,
                        !.readAfterInputEnd = @ \/ listenerPc = "done"]
          ELSE /\ mainPc' = "check"
               /\ hist' = [hist EXCEPT
                        !.everRead = TRUE,
                        !.cycleReadFailed = TRUE,
                        !.readsSincePause = IF active THEN @ ELSE Inc(@),
                        !.readAfterInputEnd = @ \/ listenerPc = "done"]
               /\ UNCHANGED << update_msg, trigger_msg, new_hash >>
    /\ UNCHANGED << exitStatus, last_hash, sendLog, active, stderr,
                    listenerVars, envVars >>

\* History of a cycle's successful send of message m.
Emitted(h, m) ==
    [h EXCEPT
        !.cycleEmitted = @ \/ ~active,
        !.emitCyclesSincePause = IF h.cycleEmitted \/ active THEN @ ELSE Inc(@),
        !.updatesSincePause =
            IF m.type = "clipboard_update" /\ ~active THEN Inc(@) ELSE @,
        !.winUpdates =
            IF m.type = "clipboard_update" /\ h.cycleSetInPause
            THEN Inc(@) ELSE @,
        !.winUpdatesAfter =
            IF m.type = "clipboard_update" /\ h.cycleSetInPause
               /\ h.cycleAfterPause
            THEN Inc(@) ELSE @]

\* Faulty variant of SendUpdate that ignores the result of send_json and goes
\* on with the cycle (C15 fails on it).
SendUpdate_IgnoresError ==
    /\ Alive /\ mainPc = "send_update"
    /\ IF update_msg # None
       THEN /\ SendJson(update_msg[1])
            /\ hist' = IF stdoutOpen THEN Emitted(hist, update_msg[1]) ELSE hist
       ELSE UNCHANGED << sendLog, hist >>
    /\ mainPc' = "send_trigger"
    /\ UNCHANGED << exitStatus, last_hash, update_msg, trigger_msg, new_hash,
                    active, stderr, listenerVars, envVars >>

\* if let Some(msg) = update_msg { if let Err(_) = send_json(&msg) { break; } }
\* (after the break, main returns Ok(()))
SendUpdate ==
    /\ Alive /\ mainPc = "send_update"
    /\ IF update_msg # None
       THEN /\ SendJson(update_msg[1])
            /\ IF stdoutOpen
               THEN /\ mainPc' = "send_trigger"
                    /\ exitStatus' = exitStatus
                    /\ hist' = Emitted(hist, update_msg[1])
               ELSE /\ mainPc' = "exited"
                    /\ exitStatus' = "exit0"
                    /\ hist' = hist
       ELSE /\ mainPc' = "send_trigger"
            /\ UNCHANGED << sendLog, exitStatus, hist >>
    /\ UNCHANGED << last_hash, update_msg, trigger_msg, new_hash, active,
                    stderr, listenerVars, envVars >>

\* Faulty variant of SendTrigger that does not store the new hash at the end
\* of the cycle (C18 fails on it).
SendTrigger_KeepsOldHash ==
    /\ Alive /\ mainPc = "send_trigger"
    /\ IF trigger_msg # None /\ ~stdoutOpen
       THEN /\ SendJson(trigger_msg[1])
            /\ mainPc' = "exited"
            /\ exitStatus' = "exit0"
            /\ UNCHANGED << update_msg, trigger_msg, new_hash, hist >>
       ELSE /\ IF trigger_msg # None
               THEN /\ SendJson(trigger_msg[1])
                    /\ hist' = Emitted(hist, trigger_msg[1])
               ELSE UNCHANGED << sendLog, hist >>
            /\ update_msg' = None
            /\ trigger_msg' = None
            /\ new_hash' = ""
            /\ mainPc' = "check"
            /\ exitStatus' = exitStatus
    /\ UNCHANGED << last_hash, active, stderr, listenerVars, envVars >>

\* if let Some(msg) = trigger_msg { if let Err(_) = send_json(&msg) { break; } }
\* last_hash = Some(new_hash); the cycle's locals then go out of scope.
SendTrigger ==
    /\ Alive /\ mainPc = "send_trigger"
    /\ IF trigger_msg # None /\ ~stdoutOpen
       THEN /\ SendJson(trigger_msg[1])
            /\ mainPc' = "exited"
            /\ exitStatus' = "exit0"
            /\ UNCHANGED << last_hash, update_msg, trigger_msg, new_hash,
                            hist >>
       ELSE /\ IF trigger_msg # None
               THEN /\ SendJson(trigger_msg[1])
                    /\ hist' = Emitted(hist, trigger_msg[1])
               ELSE UNCHANGED << sendLog, hist >>
            /\ last_hash' = Some(new_hash)
            /\ update_msg' = None
            /\ trigger_msg' = None
            /\ new_hash' = ""
            /\ mainPc' = "check"
            /\ exitStatus' = exitStatus
    /\ UNCHANGED << active, stderr, listenerVars, envVars >>

MainNext ==
    \/ ClipboardNew \/ SendError \/ SpawnListener \/ SendReady
    \/ CheckActive \/ PausedSleep
    \/ GetText \/ SendUpdate \/ SendTrigger

\* --------------------------------------------------- listener (input_listener)
\* for line in stdin.lock().lines(): Ok(json_line)
ReadLine ==
    /\ Alive /\ listenerPc = "lines"
    /\ Len(processed) < MaxLines
    /\ \E l \in Lines : json_line' = l
    /\ listenerPc' = "decode"
    /\ UNCHANGED << mainVars, active, stderr, stdinState, processed, envVars,
                    hist >>

\* Faulty variant of ReadError that ends the whole process (C8 as amended
\* fails on it).
ReadError_ExitsProcess ==
    /\ Alive /\ listenerPc = "lines"
    /\ stdinState' = "error"
    /\ stderr' = Append(stderr, "Rust Input Read Error")
    /\ listenerPc' = "done"
    /\ mainPc' = "exited"
    /\ exitStatus' = "exit1"
    /\ UNCHANGED << last_hash, update_msg, trigger_msg, new_hash, sendLog,
                    active, json_line, processed, envVars, hist >>

\* Err(e) => { eprintln!("Rust Input Read Error: {}", e); break; }
ReadError ==
    /\ Alive /\ listenerPc = "lines"
    /\ stdinState' = "error"
    /\ stderr' = Append(stderr, "Rust Input Read Error")
    /\ listenerPc' = "done"
    /\ UNCHANGED << mainVars, active, json_line, processed, envVars, hist >>

\* Faulty variant of ReadEof in which the listener goes back to reading after
\* the end of input (C17 fails on it).
ReadEof_Retries ==
    /\ Alive /\ listenerPc = "lines"
    /\ stdinState' = "eof"
    /\ listenerPc' = "lines"
    /\ UNCHANGED << mainVars, active, stderr, json_line, processed, envVars,
                    hist >>

\* lines() returns None at end of file: the for loop and the thread end.
ReadEof ==
    /\ Alive /\ listenerPc = "lines"
    /\ stdinState' = "eof"
    /\ listenerPc' = "done"
    /\ UNCHANGED << mainVars, active, stderr, json_line, processed, envVars,
                    hist >>

\* History of a Pause that turns monitoring off: a pause window opens.
WindowOpened(h) ==
    [h EXCEPT !.window = TRUE,
              !.readsSincePause = 0,
              !.emitCyclesSincePause = 0,
              !.updatesSincePause = 0,
              !.cycleEmitted = FALSE,
              !.cycleAfterPause = FALSE,
              !.winChanges = 0,
              !.clipSetInPause = FALSE,
              !.cycleSetInPause = FALSE,
              !.winUpdates = 0,
              !.winUpdatesAfter = 0]

\* History of a Resume: the counters of the pause start afresh.
PauseEnded(h) ==
    [h EXCEPT !.readsSincePause = 0,
              !.emitCyclesSincePause = 0,
              !.updatesSincePause = 0,
              !.cycleEmitted = FALSE]

\* Faulty variant of HandleLine that leaves the loop on a line that does not
\* decode (C9 fails on it).
HandleLine_BreaksOnParseError ==
    /\ Alive /\ listenerPc = "decode"
    /\ LET cmd == Decode(json_line)
       IN CASE cmd = "Pause" ->
                  /\ active' = FALSE
                  /\ stderr' = stderr
                  /\ hist' = IF active THEN WindowOpened(hist) ELSE hist
                  /\ listenerPc' = "lines"
            [] cmd = "Resume" ->
                  /\ active' = TRUE
                  /\ stderr' = stderr
                  /\ hist' = PauseEnded(hist)
                  /\ listenerPc' = "lines"
            [] OTHER ->
                  /\ stderr' = Append(stderr, "Rust Input Parsing Error")
                  /\ listenerPc' = "done"
                  /\ UNCHANGED << active, hist >>
    /\ processed' = Append(processed, Decode(json_line))
    /\ json_line' = ""
    /\ UNCHANGED << mainVars, stdinState, envVars >>

\* Faulty variant of HandleLine in which a command toggles the flag (C10
\* fails on it).
HandleLine_Toggles ==
    /\ Alive /\ listenerPc = "decode"
    /\ LET cmd == Decode(json_line)
       IN CASE cmd \in {"Pause", "Resume"} ->
                  /\ active' = ~active
                  /\ stderr' = stderr
                  /\ hist' = IF active THEN WindowOpened(hist)
                             ELSE PauseEnded(hist)
            [] OTHER ->
                  /\ stderr' = Append(stderr, "Rust Input Parsing Error")
                  /\ UNCHANGED << active, hist >>
    /\ processed' = Append(processed, Decode(json_line))
    /\ json_line' = ""
    /\ listenerPc' = "lines"
    /\ UNCHANGED << mainVars, stdinState, envVars >>

\* Faulty variant of HandleLine with the confirmation that the source keeps
\* commented out: the listener writes Ready to stdout after a command (C14
\* fails on it).
HandleLine_SendsConfirmation ==
    /\ Alive /\ listenerPc = "decode"
    /\ LET cmd == Decode(json_line)
       IN CASE cmd = "Pause" ->
                  /\ active' = FALSE
                  /\ stderr' = stderr
                  /\ hist' = IF active THEN WindowOpened(hist) ELSE hist
                  /\ SendJson(Ready)
            [] cmd = "Resume" ->
                  /\ active' = TRUE
                  /\ stderr' = stderr
                  /\ hist' = PauseEnded(hist)
                  /\ SendJson(Ready)
            [] OTHER ->
                  /\ stderr' = Append(stderr, "Rust Input Parsing Error")
                  /\ UNCHANGED << active, hist, sendLog >>
    /\ processed' = Append(processed, Decode(json_line))
    /\ json_line' = ""
    /\ listenerPc' = "lines"
    /\ UNCHANGED << mainPc, exitStatus, last_hash, update_msg, trigger_msg,
                    new_hash, stdinState, envVars >>

\* match serde_json::from_str::<InputCommand>(&json_line) { Ok(cmd) => lock
\* and store, Err(e) => eprintln!(..) }
HandleLine ==
    /\ Alive /\ listenerPc = "decode"
    /\ LET cmd == Decode(json_line)
       IN CASE cmd = "Pause" ->
                  /\ active' = FALSE
                  /\ stderr' = stderr
                  /\ hist' = IF active THEN WindowOpened(hist) ELSE hist
            [] cmd = "Resume" ->
                  /\ active' = TRUE
                  /\ stderr' = stderr
                  /\ hist' = PauseEnded(hist)
            [] OTHER ->
                  /\ stderr' = Append(stderr, "Rust Input Parsing Error")
                  /\ UNCHANGED << active, hist >>
    /\ processed' = Append(processed, Decode(json_line))
    /\ json_line' = ""
    /\ listenerPc' = "lines"
    /\ UNCHANGED << mainVars, stdinState, envVars >>

ListenerNext == ReadLine \/ ReadError \/ ReadEof \/ HandleLine

\* ---------------------------------------------------------------- environment
\* Another program puts a different text on the clipboard.
SetClipboard ==
    /\ Alive /\ changes < MaxChanges
    /\ \E c \in Contents \ {clipboard} : clipboard' = c
    /\ changes' = changes + 1
    /\ hist' = [hist EXCEPT
                  !.clipSetInPause = ~active,
                  !.winChanges = IF ~active THEN Inc(@) ELSE @]
    /\ UNCHANGED << mainVars, listenerVars, active, stderr, stdoutOpen >>

\* The parent process goes away: every later write to stdout fails.
CloseStdout ==
    /\ Alive /\ stdoutOpen
    /\ stdoutOpen' = FALSE
    /\ UNCHANGED << mainVars, listenerVars, active, stderr, clipboard,
                    changes, hist >>

EnvNext == SetClipboard \/ CloseStdout

Next == MainNext \/ ListenerNext \/ EnvNext

Spec == Init /\ [][Next]_vars

\* The orchestrator thread keeps being scheduled and its sleeps end; the
\* listener blocks on stdin for as long as the parent writes nothing.
FairSpec == Spec /\ WF_vars(MainNext)

\* ---------------------------------------- detection taken as a pure function
\* process_clipboard_content applied to a text and a previous fingerprint,
\* then applied again to the same text with the fingerprint it returned (what
\* main stores in last_hash between two cycles).
Fingerprints == { None } \cup { Some(md5hex(Join(t))) : t \in Texts }

PureInit ==
    /\ mainPc = "detect"
    /\ clipboard \in Texts
    /\ last_hash \in Fingerprints
    /\ update_msg = None
    /\ trigger_msg = None
    /\ new_hash = ""
    /\ exitStatus = "running"
    /\ listenerPc = "unspawned"
    /\ stdinState = "open"
    /\ json_line = ""
    /\ active = TRUE
    /\ stdoutOpen = TRUE
    /\ sendLog = <<>>
    /\ stderr = <<>>
    /\ processed = <<>>
    /\ changes = 0
    /\ hist = <<>>

\* let (update_msg, trigger_msg, new_hash) =
\*     process_clipboard_content(&content, last_hash.as_deref());
DetectFirst ==
    /\ mainPc = "detect"
    /\ LET r == process_clipboard_content(clipboard, last_hash)
       IN /\ update_msg' = r.update
          /\ trigger_msg' = r.trigger
          /\ new_hash' = r.hash
    /\ mainPc' = "detect_again"
    /\ UNCHANGED << exitStatus, last_hash, sendLog, active, stderr,
                    listenerVars, envVars, hist >>

\* last_hash = Some(new_hash); then the same call on the same text.
DetectAgain ==
    /\ mainPc = "detect_again"
    /\ last_hash' = Some(new_hash)
    /\ LET r == process_clipboard_content(clipboard, Some(new_hash))
       IN /\ update_msg' = r.update
          /\ trigger_msg' = r.trigger
          /\ new_hash' = r.hash
    /\ mainPc' = "detected"
    /\ UNCHANGED << exitStatus, sendLog, active, stderr, listenerVars,
                    envVars, hist >>

PureNext == DetectFirst \/ DetectAgain

PureSpec == PureInit /\ [][PureNext]_vars


\* ================================================================ properties
Last(q) == q[Len(q)]
InLoop == mainPc \in {"check", "paused_sleep", "get_text", "send_update",
                      "send_trigger"}
\* Number of send_json calls made so far with a message of type t.
Sends(t) == Cardinality({ i \in DOMAIN sendLog : sendLog[i].msg.type = t })
\* A step of the orchestrator thread from position pc.
MainStepFrom(pc) == mainPc = pc /\ mainPc' # pc
\* The listener finishes handling the line it holds.
HandleStep == listenerPc = "decode" /\ listenerPc' # "decode"
\* The last command decoded among the handled lines, "none" when there is none.
RECURSIVE LastCmd(_)
LastCmd(q) ==
    IF q = <<>> THEN "none"
    ELSE IF Last(q) # "Err" THEN Last(q)
    ELSE LastCmd(SubSeq(q, 1, Len(q) - 1))

\* C1: when clipboard initialization succeeds, Ready is sent exactly once, as
\* the first message of the stream, and before any clipboard read, whatever
\* the listener does in between.
C1_ReadyOnceFirst ==
    /\ Sends("ready") <= 1
    /\ (~hist.initFailed /\ sendLog # <<>>) => sendLog[1].msg = Ready
    /\ InLoop => (Sends("ready") = 1 /\ out # <<>> /\ out[1] = Ready)
    /\ hist.everRead => (out # <<>> /\ out[1] = Ready)
    /\ mainPc \in {"init", "spawn", "send_ready"} =>
          (~hist.everRead /\ sendLog = <<>>)

\* A run with a command handled, a poll made and an update after Ready.
C1_Witness ==
    /\ hist.everRead /\ processed # <<>>
    /\ Len(out) >= 2 /\ out[1] = Ready /\ out[2].type = "clipboard_update"

\* C2: in an Active cycle whose read succeeds, a ClipboardUpdate is sent if
\* and only if the fingerprint of the text just read differs from last_hash
\* (None counting as different), and it carries that text.
C2_UpdateIffFingerprintDiffers ==
    [][ /\ (MainStepFrom("get_text") /\ mainPc' = "send_update") =>
              /\ new_hash' = md5hex(Join(clipboard))
              /\ (update_msg' # None) <=> (last_hash # Some(new_hash'))
        /\ MainStepFrom("send_update") =>
              /\ (sendLog' # sendLog) <=> (last_hash # Some(new_hash))
              /\ (sendLog' # sendLog) =>
                    /\ Len(sendLog') = Len(sendLog) + 1
                    /\ Last(sendLog').msg.type = "clipboard_update"
                    /\ md5hex(Last(sendLog').msg.content) = new_hash
                    /\ Last(sendLog').ok = stdoutOpen
      ]_vars

\* A cycle that read an unchanged clipboard after an earlier update: nothing
\* is sent for it.
C2_Witness ==
    /\ mainPc = "send_trigger" /\ update_msg = None
    /\ last_hash = Some(new_hash)
    /\ Len(out) = 2 /\ out[2].type = "clipboard_update"

\* A successful send of a ClipboardUpdate happens in this step.
UpdateEmitted ==
    /\ Len(out') = Len(out) + 1
    /\ Last(out').type = "clipboard_update"

\* C3 as stated: once Pause has set active = FALSE, no ClipboardUpdate is
\* emitted for a clipboard change made after it, until Resume, in every
\* interleaving.
C3_NoUpdateWhilePaused == ~active => hist.winUpdates = 0

\* C3 as amended: while paused, no cycle whose flag check came after the
\* Pause emits a ClipboardUpdate; only the one cycle that had already passed
\* its flag check when Pause was applied can still emit one.
C3_NoUpdateFromLaterCycles ==
    /\ [](~active => hist.updatesSincePause <= 1)
    /\ [][(UpdateEmitted /\ ~active) => ~hist.cycleAfterPause]_vars

\* Pause is in force, the clipboard changed after it, and the cycle that was
\* past its flag check has emitted the update for that change.
C3_Witness ==
    /\ ~active /\ hist.winChanges >= 1
    /\ hist.updatesSincePause = 1 /\ hist.winUpdates = 1
    /\ mainPc = "paused_sleep"

\* C4: after Pause is applied and before any Resume, the orchestrator makes
\* at most one more clipboard read and sends messages from at most one more
\* cycle; after Resume is applied, the next cycle that starts makes a read.
C4_OneCycleLatency ==
    /\ [](~active =>
            (hist.readsSincePause <= 1 /\ hist.emitCyclesSincePause <= 1))
    /\ [][(MainStepFrom("check") /\ LastCmd(processed) = "Resume") =>
              mainPc' = "get_text"]_vars
    /\ [][(MainStepFrom("get_text") /\ ~hist.everRead) => hist'.everRead]_vars

\* The in-flight cycle has read and sent after the Pause, and the following
\* cycle has seen the flag.
C4_Witness ==
    /\ ~active /\ LastCmd(processed) = "Pause"
    /\ hist.readsSincePause = 1 /\ hist.emitCyclesSincePause = 1
    /\ hist.cycleAfterPause /\ mainPc = "paused_sleep"

\* A cycle that observes active = FALSE.
PausedCycleStep ==
    \/ MainStepFrom("check") /\ ~active
    \/ MainStepFrom("paused_sleep")

\* C5 as stated (last clause): at most one ClipboardUpdate is emitted for all
\* the changes made during a pause window.
C5_OneUpdatePerWindow == hist.winUpdates <= 1

\* C5 as amended: a cycle that observes active = FALSE makes no read, sends
\* nothing and leaves last_hash unchanged; a poll that finds the fingerprint
\* equal to last_hash emits nothing, whatever the clipboard held during the
\* pause; and for all the changes made during a pause window at most one
\* ClipboardUpdate is emitted by the cycles that check the flag after the
\* Pause (the cycle in flight when Pause was applied may emit one more).
C5_PausedCycleFrame ==
    /\ [][PausedCycleStep =>
            /\ mainPc' \in {"paused_sleep", "check"}
            /\ UNCHANGED << sendLog, last_hash, update_msg, trigger_msg,
                            new_hash, exitStatus >>
            /\ hist'.everRead = hist.everRead]_vars
    /\ [][(MainStepFrom("get_text") /\ mainPc' = "send_update"
            /\ last_hash = Some(md5hex(Join(clipboard)))) =>
              (update_msg' = None /\ trigger_msg' = None)]_vars
    /\ [](hist.winUpdatesAfter <= 1 /\ hist.winUpdates <= 2)

\* The clipboard changed twice during the pause and is back at the text of
\* last_hash; the first poll after Resume has read it and emits nothing.
C5_Witness ==
    /\ active /\ LastCmd(processed) = "Resume"
    /\ hist.winChanges = 2 /\ hist.cycleSetInPause /\ hist.cycleAfterPause
    /\ mainPc = "send_update" /\ update_msg = None
    /\ last_hash = Some(new_hash)

\* C6: the process never exits with status 0; when a write to the output
\* stream fails (Ready, ClipboardUpdate or TriggerXml) the loop ends and the
\* process exits with a non-zero status.
C6_NeverExitsZero ==
    /\ exitStatus # "exit0"
    /\ (sendLog # <<>> /\ ~Last(sendLog).ok) =>
          (mainPc = "exited" /\ exitStatus = "exit1")

\* C7: when clipboard initialization fails, the process sends exactly one
\* Error message and exits non-zero, also when that write fails, without
\* sending Ready, starting the listener or polling.
C7_InitFailure ==
    hist.initFailed =>
        /\ mainPc \in {"send_error", "exited"}
        /\ listenerPc = "unspawned" /\ processed = <<>> /\ active
        /\ ~hist.everRead /\ last_hash = None
        /\ Sends("ready") = 0
        /\ mainPc = "send_error" => (sendLog = <<>> /\ Alive)
        /\ mainPc = "exited" =>
              /\ exitStatus = "exit1"
              /\ Len(sendLog) = 1
              /\ sendLog[1].msg.type = "error"
              /\ out = IF sendLog[1].ok THEN << sendLog[1].msg >> ELSE <<>>

\* Initialization failed with the parent already gone: the Error write
\* failed and the process has exited.
C7_Witness ==
    /\ hist.initFailed /\ mainPc = "exited"
    /\ Len(sendLog) = 1 /\ ~sendLog[1].ok

\* C8 as stated: when a read from the control input stream fails, the
\* orchestrator's polling loop eventually stops.
C8_InputErrorStopsLoop == (stdinState = "error") ~> (mainPc = "exited")

\* C8 as amended: a failed read of the control stream stops the listener
\* thread only; the orchestrator stays in Running and keeps polling, and it
\* leaves Running only when a write to the output stream fails.
C8_OnlyWriteFailureStopsLoop ==
    /\ [][(stdinState # "error" /\ stdinState' = "error") =>
            (listenerPc' = "done" /\ UNCHANGED << mainVars, active >>)]_vars
    /\ [][(InLoop /\ mainPc' = "exited") =>
            (sendLog' # sendLog /\ ~Last(sendLog').ok)]_vars
    /\ []((stdinState = "error" /\ stdoutOpen) => Alive)

\* The control stream has failed, and the orchestrator has polled the
\* clipboard after that and is about to send the update.
C8_Witness ==
    /\ stdinState = "error" /\ listenerPc = "done" /\ Alive
    /\ hist.readAfterInputEnd /\ mainPc = "send_update" /\ update_msg # None

\* C9: a line that does not decode as an InputCommand (the empty line
\* included) leaves active unchanged, writes nothing to stdout and does not
\* stop the listener: a valid Pause or Resume on a later line is applied.
C9_MalformedLineIgnored ==
    /\ [][(HandleStep /\ Decode(json_line) = "Err") =>
            /\ active' = active
            /\ sendLog' = sendLog
            /\ stderr' # stderr
            /\ listenerPc' = "lines" /\ stdinState' = "open"]_vars
    /\ [][(HandleStep /\ processed # <<>> /\ Last(processed) = "Err"
            /\ Decode(json_line) # "Err") =>
              active' = (Decode(json_line) = "Resume")]_vars
    /\ []((processed # <<>> /\ Last(processed) = "Err"
            /\ Len(processed) < MaxLines /\ listenerPc = "lines" /\ Alive)
              => ENABLED ReadLine)

\* A line that does not decode was handled first, then a Pause, which was
\* applied.
C9_Witness ==
    /\ processed = << "Err", "Pause" >> /\ ~active
    /\ Len(stderr) = 1 /\ listenerPc = "lines"

\* C10: active is FALSE exactly when the last successfully decoded command
\* is Pause (TRUE at startup and while none was decoded), and applying the
\* command that was applied last changes nothing.
C10_ActiveIsLastCommand ==
    /\ [](active <=> (LastCmd(processed) # "Pause"))
    /\ [][(HandleStep /\ Decode(json_line) = LastCmd(processed)) =>
            active' = active]_vars

\* Pause was applied twice in a row.
C10_Witness == processed = << "Pause", "Pause" >> /\ ~active

\* C11: a clipboard read that fails during Running sends no message, leaves
\* last_hash unchanged, is not retried within the cycle and does not end the
\* loop: the orchestrator goes to the top of the loop for its next cycle.
C11_ReadFailureAbsorbed ==
    /\ [][(MainStepFrom("get_text") /\ hist'.cycleReadFailed) =>
            /\ mainPc' = "check"
            /\ exitStatus' = "running"
            /\ UNCHANGED << sendLog, last_hash, update_msg, trigger_msg,
                            new_hash, stderr, active >>]_vars
    /\ []((mainPc = "check" /\ hist.cycleReadFailed) =>
            (Alive /\ ENABLED CheckActive))
    /\ [](hist.cycleReadFailed => mainPc = "check")

\* A read failed in a cycle that followed a completed one, and the
\* orchestrator is at the top of the loop again.
C11_Witness ==
    /\ hist.cycleReadFailed /\ mainPc = "check" /\ Alive
    /\ last_hash # None /\ Len(out) >= 2

\* The text among Contents that spells str.
TextOf(str) == CHOOSE c \in Contents : Join(c) = str
\* Pieces i..j of ps are one occurrence of the trigger markup: an opening or
\* self-closing qdrant tag up to the closing tag of the same name, or up to
\* the "/>" that ends a self-closing tag.
IsSpan(ps, i, j) ==
    /\ i <= j /\ StartsTag(ps[i])
    /\ \/ j > i /\ ps[j].k = "close" /\ ps[j].tag = ps[i].tag
       \/ ps[j].k = "self"
SpansOf(ps) == { ij \in (DOMAIN ps) \X (DOMAIN ps) : IsSpan(ps, ij[1], ij[2]) }
HasMarkup(ps) == SpansOf(ps) # {}
\* q lists occurrences of the markup in ps, the first one there is and then
\* later ones, each starting after the end of the one before.
SpansInOrder(ps, q) ==
    \E f \in [1..Len(q) -> SpansOf(ps)] :
        /\ \A k \in 1..Len(q) : q[k] = Join(SubSeq(ps, f[k][1], f[k][2]))
        /\ \A k \in 1..(Len(q) - 1) : f[k][2] < f[k + 1][1]
        /\ \A ij \in SpansOf(ps) : f[1][1] <= ij[1]
        /\ \A ij \in SpansOf(ps) : ij[1] <= f[Len(q)][2]

C13_DetectionIdempotent ==
    /\ (mainPc = "detect_again") =>
          /\ new_hash = md5hex(Join(clipboard))
          /\ Len(new_hash) = 32
    /\ (mainPc = "detected") =>
          /\ last_hash # None
          /\ new_hash = last_hash[1]
          /\ new_hash = md5hex(Join(clipboard))
          /\ update_msg = None
          /\ trigger_msg = None

\* The second call has returned for a text with markup and a fingerprint.
C13_Witness ==
    /\ mainPc = "detected"
    /\ clipboard = TwoPaired
    /\ last_hash = Some("8ef30870e80052745e06b97c57545ea5")
    /\ new_hash = "8ef30870e80052745e06b97c57545ea5"
    /\ update_msg = None /\ trigger_msg = None

\* A step of the listener thread, once spawned (each one moves its position).
ListenerStep == listenerPc # "unspawned" /\ listenerPc' # listenerPc

\* C14: only the orchestrator thread reads the clipboard and writes to
\* stdout. No listener step (command, decode failure, read error, end of
\* input) adds to the output or touches what a clipboard read produces; every
\* write is one whole message appended by a sending step of main, and every
\* read is main's step from get_text.
C14_OnlyMainReadsAndWrites ==
    [][/\ ListenerStep =>
            /\ sendLog' = sendLog
            /\ mainPc' = mainPc
            /\ UNCHANGED << update_msg, trigger_msg, new_hash, last_hash >>
            /\ hist'.everRead = hist.everRead
            /\ hist'.readOk = hist.readOk
            /\ hist'.cycleReadFailed = hist.cycleReadFailed
       /\ sendLog' # sendLog =>
            /\ mainPc \in {"send_error", "send_ready", "send_update",
                            "send_trigger"}
            /\ mainPc' # mainPc
            /\ listenerVars' = listenerVars
            /\ Len(sendLog') = Len(sendLog) + 1
            /\ SubSeq(sendLog', 1, Len(sendLog)) = sendLog
       /\ (\/ hist'.everRead # hist.everRead
           \/ hist'.readOk # hist.readOk
           \/ (hist'.cycleReadFailed /\ ~hist.cycleReadFailed)
           \/ (new_hash' # new_hash /\ new_hash' # "")) =>
            /\ MainStepFrom("get_text")
            /\ listenerVars' = listenerVars]_vars

\* The listener has gone through a decode failure, a command and a read
\* error while main has read the clipboard and written two messages.
C14_Witness ==
    /\ processed = << "Err", "Pause" >>
    /\ stdinState = "error"
    /\ hist.readOk
    /\ Len(out) = 2
    /\ Len(stderr) = 2

\* C15: a failed write is the last thing main does. Only the last send_json
\* call can have failed and main has then left the loop for good; when the
\* failed write is a cycle's ClipboardUpdate, the step that fails makes no
\* other write and leaves last_hash alone, the cycle's TriggerXml is never
\* sent, and last_hash never becomes the fingerprint of that content.
C15_NoEmitAfterFailure ==
    /\ [](\A i \in DOMAIN sendLog :
            ~sendLog[i].ok =>
                /\ i = Len(sendLog)
                /\ mainPc = "exited"
                /\ ~Alive
                /\ ~ENABLED MainNext)
    /\ []((sendLog # <<>> /\ ~Last(sendLog).ok
             /\ Last(sendLog).msg.type = "clipboard_update") =>
                last_hash # Some(md5hex(Last(sendLog).msg.content)))
    /\ [][(MainStepFrom("send_update") /\ update_msg # None /\ ~stdoutOpen) =>
            /\ sendLog' = Append(sendLog, [msg |-> update_msg[1], ok |-> FALSE])
            /\ mainPc' = "exited"
            /\ ~Alive'
            /\ UNCHANGED << last_hash, trigger_msg >>]_vars
    /\ [][mainPc = "exited" => UNCHANGED mainVars]_vars

\* After one emitted cycle, the write of the ClipboardUpdate of a text with
\* markup has failed: its TriggerXml is still pending and main has exited.
C15_Witness ==
    /\ Len(sendLog) = 3
    /\ Len(out) = 2
    /\ Last(sendLog) = [msg |-> ClipboardUpdate(FileAndRead), ok |-> FALSE]
    /\ trigger_msg # None
    /\ last_hash = Some(md5hex(Join(TestData)))
    /\ mainPc = "exited"

RECURSIVE Groups(_)
\* q is zero or more groups, each one ClipboardUpdate optionally followed by
\* one TriggerXml.
Groups(q) ==
    \/ q = <<>>
    \/ /\ q[1].type = "clipboard_update"
       /\ \/ Groups(Tail(q))
          \/ /\ Len(q) >= 2
             /\ q[2].type = "trigger_xml"
             /\ Groups(Tail(Tail(q)))

\* C16: the stream written to stdout is empty, or the single message Error,
\* or Ready followed by groups of one ClipboardUpdate and at most one
\* TriggerXml; a TriggerXml directly follows the ClipboardUpdate of its cycle
\* (its payloads are the matches of that update's content) and its
\* xml_payloads is never empty.
C16_StreamGrammar ==
    /\ \/ out = <<>>
       \/ out = << ErrorMsg("Failed to init Clipboard") >>
       \/ /\ out[1] = Ready
          /\ Groups(Tail(out))
    /\ \A k \in DOMAIN out :
          /\ out[k].type = "error" => Len(out) = 1
          /\ out[k].type = "trigger_xml" =>
                /\ k > 1
                /\ out[k - 1].type = "clipboard_update"
                /\ out[k].xml_payloads # <<>>
                /\ out[k].xml_payloads =
                      FindIter(TextOf(out[k - 1].content), 1)

\* Ready, a group without trigger, then a group with one.
C16_Witness ==
    /\ Len(out) = 4
    /\ out[1] = Ready
    /\ out[2] = ClipboardUpdate(TestData)
    /\ out[3] = ClipboardUpdate(FileAndRead)
    /\ out[4].type = "trigger_xml"
    /\ Len(out[4].xml_payloads) = 2

\* C17: the listener stops for good when the control stream ends or fails.
\* It is stopped exactly when the stream has ended; the stopping step touches
\* neither the flag nor main; from then on no line is handled and the flag
\* keeps its value; and main, if it was in its loop, can still take steps.
C17_ListenerStopsForGood ==
    /\ [](listenerPc = "done" <=> stdinState \in {"eof", "error"})
    /\ [][(listenerPc # "done" /\ listenerPc' = "done") =>
            UNCHANGED << mainVars, active, processed, json_line >>]_vars
    /\ [][listenerPc = "done" =>
            UNCHANGED << listenerPc, stdinState, active, processed,
                         json_line, stderr >>]_vars
    /\ []((listenerPc = "done" /\ InLoop /\ Alive) => ENABLED MainNext)

\* The input has ended while paused after a command; main is still in its
\* loop and has gone through a flag check since.
C17_Witness ==
    /\ stdinState = "eof"
    /\ listenerPc = "done"
    /\ processed = << "Resume", "Pause" >>
    /\ ~active
    /\ Alive /\ mainPc = "paused_sleep"
    /\ Len(out) >= 2

\* Positions of the ClipboardUpdate messages on stdout.
UpdateAt == { k \in DOMAIN out : out[k].type = "clipboard_update" }
\* The greatest position of a non-empty set of positions.
Greatest(S) == CHOOSE j \in S : \A k \in S : k <= j

\* C18: between cycles of the running loop, last_hash is None exactly when
\* no get_text has succeeded yet, and otherwise it is the fingerprint of the
\* content of the last ClipboardUpdate written; and two ClipboardUpdate
\* messages with no other ClipboardUpdate between them never carry contents
\* with the same fingerprint.
C18_LastHashTracksLastUpdate ==
    /\ (Alive /\ mainPc \in {"check", "paused_sleep", "get_text"}) =>
          /\ last_hash = None <=> ~hist.readOk
          /\ last_hash # None =>
                /\ UpdateAt # {}
                /\ last_hash[1] = md5hex(out[Greatest(UpdateAt)].content)
    /\ \A i \in UpdateAt : \A j \in UpdateAt :
          (i < j /\ \A k \in UpdateAt : ~(i < k /\ k < j)) =>
              md5hex(out[i].content) # md5hex(out[j].content)

\* Three updates written, the clipboard having gone back to its first text;
\* main is between two cycles.
C18_Witness ==
    /\ Alive /\ mainPc = "check"
    /\ Cardinality(UpdateAt) = 3
    /\ Last(out) = ClipboardUpdate(TestData)
    /\ last_hash = Some("f315202b28422ed5c2af4f843b8c2764")

\* The control stream has ended with monitoring paused.
ClosedWhilePaused == listenerPc = "done" /\ ~active
\* ... and main is between cycles, alternating flag check and sleep.
PausedAtBoundary ==
    ClosedWhilePaused /\ Alive /\ mainPc \in {"check", "paused_sleep"}

\* C19 as stated: once the control stream has ended while paused, main never
\* reads the clipboard, writes a message or exits. Violated: a cycle that
\* passed the flag check before the Pause still reads, writes, and exits if
\* the write fails.
C19_PausedForeverOnClose ==
    [][ClosedWhilePaused =>
         /\ ~MainStepFrom("get_text")
         /\ sendLog' = sendLog
         /\ exitStatus' = exitStatus]_vars

\* C19 amended: once the control stream has ended while paused and main is
\* between cycles, it stays there for ever, with no read, no write, no change
\* of last_hash and no exit; before that, at most the one cycle that was
\* past the flag check reads the clipboard.
C19_PausedForeverAfterCycle ==
    /\ [][PausedAtBoundary =>
            /\ PausedAtBoundary'
            /\ UNCHANGED << sendLog, last_hash, exitStatus >>
            /\ hist'.readsSincePause = hist.readsSincePause]_vars
    /\ [](PausedAtBoundary => ENABLED MainNext)
    /\ [](ClosedWhilePaused => hist.readsSincePause <= 1)

\* The stream ended while paused, the cycle in flight read the clipboard and
\* wrote its update after that, and main is now between cycles.
C19_Witness ==
    /\ PausedAtBoundary
    /\ hist.readAfterInputEnd
    /\ hist.readsSincePause = 1
    /\ hist.updatesSincePause = 1
    /\ mainPc = "paused_sleep"

\* The last ClipboardUpdate written carries the text c.
LastUpdateIs(c) ==
    UpdateAt # {} /\ out[Greatest(UpdateAt)] = ClipboardUpdate(c)

\* C20: with main scheduled fairly, whenever the loop runs with monitoring
\* active, stdout open and a clipboard text c whose fingerprint is not
\* last_hash, a ClipboardUpdate carrying c gets written, unless monitoring is
\* paused, stdout closes, a read fails or the clipboard changes first; and a
\* further ClipboardUpdate is written only with a content other than that of
\* the one before.
C20_ChangeEventuallyReported ==
    /\ \A c \in Contents :
          (/\ Alive /\ InLoop
           /\ active /\ stdoutOpen
           /\ clipboard = c
           /\ last_hash # Some(md5hex(Join(c)))
           /\ ~LastUpdateIs(c))
          ~> (\/ LastUpdateIs(c)
              \/ ~active
              \/ ~stdoutOpen
              \/ hist.cycleReadFailed
              \/ clipboard # c)
    /\ [][(UpdateAt # {} /\ UpdateAt' # UpdateAt) =>
            out'[Greatest(UpdateAt')].content # out[Greatest(UpdateAt)].content]_vars

\* The clipboard was changed twice and the update for its present text has
\* been written, with monitoring active and no failure in this cycle.
C20_Witness ==
    /\ Alive /\ mainPc = "send_trigger"
    /\ active /\ stdoutOpen /\ ~hist.cycleReadFailed
    /\ changes = 2
    /\ clipboard = FileAndRead
    /\ LastUpdateIs(FileAndRead)
    /\ last_hash = Some(md5hex(Join(TestData)))
    /\ Cardinality(UpdateAt) = 2

====
